---------------------------- MODULE Spec2Model ----------------------------
(***************************************************************************)
(* A model of git-log-ai.ts: the commit filter of fetchGitLog, the batch   *)
(* loop of analyzeCommitsWithGPT / analyzeBatch, mergeBatchAnalyses and    *)
(* the exit behaviour of main.                                             *)
(*                                                                         *)
(* Text is modelled as a sequence of one-character strings, so that        *)
(* split, trim, join and toLowerCase are computed character by character.  *)
(***************************************************************************)
EXTENDS Integers, Sequences, FiniteSets, TLC

VARIABLES
    \* ---- fetchGitLog (SpecFilter) ----
    fstage,       \* "input" | "filtered" | "refiltered"
    output,       \* the text returned by runGitCommand
    logCommits,   \* the CommitInfo[] returned by fetchGitLog
    refiltered,   \* fetchGitLog's pipeline applied to logCommits written back as lines
    \* ---- mergeBatchAnalyses (SpecMerge) ----
    mstage,       \* "input" | "merged" | "swapped"
    analyses,     \* the ResumeAnalysis[] handed to mergeBatchAnalyses
    merged,       \* mergeBatchAnalyses(analyses)
    swapped,      \* mergeBatchAnalyses of the two partials in the other order
    \* ---- main / analyzeCommitsWithGPT (Spec) ----
    pc,           \* position of main
    args,         \* CliArgs as returned by parseArgs
    repoCheck,    \* what validateRepo found: "none" | "absent" | "notgit" | "ok"
    fetchStatus,  \* "none" | "failed" | "ok"
    commits,      \* the commits main got from fetchGitLog
    run,          \* the state of one analyzeCommitsWithGPT call
    effects,      \* the operations main has performed so far, in order
    exitCode,     \* the process exit status, -1 while the process runs
    \* ---- startWebServer: POST /api/analyze-resume (SpecWeb) ----
    requests,     \* per request: what the client sent, what the service answered
                  \* this request's calls, and the HTTP response
    webRuns       \* per request: the state of its analyzeCommitsWithGPT call

filterVars == <<fstage, output, logCommits, refiltered>>
mergeVars  == <<mstage, analyses, merged, swapped>>
mainVars   == <<pc, args, repoCheck, fetchStatus, commits, run, effects, exitCode>>
webVars    == <<requests, webRuns>>
vars == <<fstage, output, logCommits, refiltered,
          mstage, analyses, merged, swapped,
          pc, args, repoCheck, fetchStatus, commits, run, effects, exitCode,
          requests, webRuns>>

---------------------------------------------------------------------------
(* Text primitives                                                         *)

Tab == "\t"
NL  == "\n"

\* The characters String.prototype.trim strips and the regex class \s matches.
WhiteSpace == {" ", "\t", "\n", "\r"}

RECURSIVE trimStart(_)
trimStart(s) ==
    IF s # <<>> /\ Head(s) \in WhiteSpace THEN trimStart(Tail(s)) ELSE s

RECURSIVE trimEnd(_)
trimEnd(s) ==
    IF s # <<>> /\ s[Len(s)] \in WhiteSpace
    THEN trimEnd(SubSeq(s, 1, Len(s) - 1))
    ELSE s

trim(s) == trimEnd(trimStart(s))

\* String.prototype.split(sep) for a one-character separator: "" splits to [""].
RECURSIVE split(_, _)
split(s, sep) ==
    IF \E k \in 1..Len(s) : s[k] = sep
    THEN LET k == CHOOSE k \in 1..Len(s) :
                      s[k] = sep /\ \A j \in 1..(k - 1) : s[j] # sep
         IN  <<SubSeq(s, 1, k - 1)>> \o split(SubSeq(s, k + 1, Len(s)), sep)
    ELSE <<s>>

\* Array.prototype.join(sep): [] joins to "".
RECURSIVE join(_, _)
join(parts, sep) ==
    IF parts = <<>> THEN <<>>
    ELSE IF Len(parts) = 1 THEN parts[1]
    ELSE parts[1] \o <<sep>> \o join(Tail(parts), sep)

toLowerChar(c) ==
    CASE c = "F" -> "f"
      [] c = "I" -> "i"
      [] c = "X" -> "x"
      [] c = "A" -> "a"
      [] OTHER   -> c

toLowerCase(s) == [k \in 1..Len(s) |-> toLowerChar(s[k])]

---------------------------------------------------------------------------
(* fetchGitLog: lines 153-212                                              *)

\* line => line.trim()   (an empty string is falsy)
nonBlank(line) == trim(line) # <<>>

\* const [hash, date, name, email, subject, ...bodyParts] = parts
bodyPartsFromSubject(parts) ==
    IF Len(parts) > 4 THEN SubSeq(parts, 5, Len(parts)) ELSE <<>>

bodyParts(parts) ==
    IF Len(parts) > 5 THEN SubSeq(parts, 6, Len(parts)) ELSE <<>>

\* The .map callback: a missing positional field is undefined, `|| ''` makes it "".
parseLine(line) ==
    LET parts    == split(line, Tab)
        field(k) == IF k <= Len(parts) THEN parts[k] ELSE <<>>
        body     == trim(join(bodyParts(parts), Tab))
    IN  [hash    |-> field(1),
         date    |-> field(2),
         author  |-> field(3),
         email   |-> field(4),
         subject |-> field(5),
         body    |-> body]

\* The literal part of each entry of meaninglessPatterns; every pattern is
\* ^<literal>\s*$ except the first, '^$', which is ^<empty>$.
meaninglessPatterns ==
    << <<>>,
       <<>>,
       <<"*">>,
       <<"f", "e", "a", "t", ":">>,
       <<"f", "i", "x", ":">>,
       <<"c", "h", "o", "r", "e", ":">>,
       <<"d", "o", "c", "s", ":">>,
       <<"s", "t", "y", "l", "e", ":">>,
       <<"r", "e", "f", "a", "c", "t", "o", "r", ":">>,
       <<"t", "e", "s", "t", ":">> >>

\* new RegExp(pattern).test(subject) for the k-th pattern
regexTest(k, subject) ==
    LET lit == meaninglessPatterns[k]
    IN  IF k = 1
        THEN subject = <<>>
        ELSE /\ Len(subject) >= Len(lit)
             /\ SubSeq(subject, 1, Len(lit)) = lit
             /\ \A j \in (Len(lit) + 1)..Len(subject) : subject[j] \in WhiteSpace

isMeaningless(subject) ==
    \E k \in 1..Len(meaninglessPatterns) : regexTest(k, subject)

keepCommitShortSubject(commit) ==
    IF \/ commit.hash = <<>> \/ commit.date = <<>>
       \/ commit.author = <<>> \/ commit.subject = <<>>
    THEN FALSE
    ELSE IF Len(trim(commit.subject)) < 2
    THEN FALSE
    ELSE IF trim(commit.author) = <<>> \/ trim(commit.email) = <<>>
    THEN FALSE
    ELSE ~ isMeaningless(trim(toLowerCase(commit.subject)))

\* The second .filter callback, with its early returns in the code's order.
keepCommit(commit) ==
    IF \/ commit.hash = <<>> \/ commit.date = <<>>
       \/ commit.author = <<>> \/ commit.subject = <<>>
    THEN FALSE
    ELSE IF Len(trim(commit.subject)) < 3
    THEN FALSE
    ELSE IF trim(commit.author) = <<>> \/ trim(commit.email) = <<>>
    THEN FALSE
    ELSE ~ isMeaningless(trim(toLowerCase(commit.subject)))

\* lines.map(line => ...)
parseLines(lines) == [k \in 1..Len(lines) |-> parseLine(lines[k])]

\* output.split('\n').filter(...).map(...).filter(...)
filterLog(text) ==
    SelectSeq(parseLines(SelectSeq(split(text, NL), nonBlank)), keepCommit)


\* The line format fetchGitLog asks git for: %H%x09%ad%x09%an%x09%ae%x09%s%x09%b
serialize(commit) ==
    join(<<commit.hash, commit.date, commit.author, commit.email,
           commit.subject, commit.body>>, Tab)

\* The records as the log text git would print for them, one line each.
serializeAll(cs) == join([k \in 1..Len(cs) |-> serialize(cs[k])], NL)

---------------------------------------------------------------------------
(* Inputs of the filter specification                                      *)

MaxLines == 2

Line5(h, d, n, e, s) == join(<<h, d, n, e, s>>, Tab)

\* Lines with a field empty, blank or missing; the subject is acceptable.
HeaderLines ==
    { Line5(<<"h">>, <<"d">>, <<"n">>, <<"e">>, <<"a", "b", "c">>),
      Line5(<<>>,    <<"d">>, <<"n">>, <<"e">>, <<"a", "b", "c">>),
      Line5(<<" ">>, <<"d">>, <<"n">>, <<"e">>, <<"a", "b", "c">>),
      Line5(<<"h">>, <<>>,    <<"n">>, <<"e">>, <<"a", "b", "c">>),
      Line5(<<"h">>, <<"d">>, <<>>,    <<"e">>, <<"a", "b", "c">>),
      Line5(<<"h">>, <<"d">>, <<" ">>, <<"e">>, <<"a", "b", "c">>),
      Line5(<<"h">>, <<"d">>, <<"n">>, <<>>,    <<"a", "b", "c">>),
      Line5(<<"h">>, <<"d">>, <<"n">>, <<" ">>, <<"a", "b", "c">>),
      <<"h">>,
      join(<<<<"h">>, <<"d">>, <<"n">>>>, Tab),
      join(<<<<"h">>, <<"d">>, <<"n">>, <<"e">>>>, Tab) }

Subjects ==
    { <<>>,
      <<"a", "b">>,
      <<" ", "a", "b", " ">>,
      <<" ", "a", "b", "c">>,
      <<"*">>,
      <<"*", " ", " ">>,
      <<"*", "a", "b">>,
      <<"f", "i", "x", ":">>,
      <<"F", "I", "X", ":">>,
      <<"F", "i", "x", ":", " ">>,
      <<" ", "f", "i", "x", ":", "\r">>,
      <<"f", "i", "x", ":", "a">>,
      <<"f", "i", "x", ":", " ", "a">>,
      <<"a", "f", "i", "x", ":">>,
      <<"f", "i", "x">>,
      <<"f", "e", "a", "t", ":">>,
      <<"c", "h", "o", "r", "e", ":", " ">>,
      <<"d", "o", "c", "s", ":">>,
      <<"s", "t", "y", "l", "e", ":">>,
      <<"r", "e", "f", "a", "c", "t", "o", "r", ":">>,
      <<"t", "e", "s", "t", ":">>,
      <<"t", "e", "s", "t", "s", ":">> }

\* Lines with every header field present and a subject from Subjects.
SubjectLines ==
    { Line5(<<"g">>, <<"d">>, <<"n">>, <<"e">>, s) : s \in Subjects }

\* What follows the subject on a line: nothing, or a tab and the body text.
BodyTails ==
    { <<Tab>>,
      <<Tab, "b">>,
      <<Tab, " ", "b", " ">>,
      <<Tab, "b", Tab, "c">>,
      <<Tab, Tab, "b", Tab>>,
      <<Tab, "b", " ", "\r">> }

BodyLines ==
    { Line5(<<"k">>, <<"d">>, <<"n">>, <<"e">>, <<"x", "y", "z">>) \o t :
        t \in BodyTails }

BlankLines == { <<>>, <<" ", Tab>> }

LogLines == HeaderLines \cup SubjectLines \cup BodyLines \cup BlankLines

SeqsUpTo(S, n) == UNION { [1..k -> S] : k \in 0..n }

IdleFilter ==
    /\ fstage = "idle"
    /\ output = <<>>
    /\ logCommits = <<>>
    /\ refiltered = <<>>

InitFilterInput ==
    /\ fstage = "input"
    /\ \E lines \in SeqsUpTo(LogLines, MaxLines) : output = join(lines, NL)
    /\ logCommits = <<>>
    /\ refiltered = <<>>

\* fetchGitLog applied to the text git returned
FetchGitLog ==
    /\ fstage = "input"
    /\ logCommits' = filterLog(output)
    /\ fstage' = "filtered"
    /\ UNCHANGED <<output, refiltered>>
    /\ UNCHANGED <<mergeVars, mainVars, webVars>>

\* The surviving records written back in git's line format and filtered again
Refilter ==
    /\ fstage = "filtered"
    /\ refiltered' = filterLog(serializeAll(logCommits))
    /\ fstage' = "refiltered"
    /\ UNCHANGED <<output, logCommits>>
    /\ UNCHANGED <<mergeVars, mainVars, webVars>>

---------------------------------------------------------------------------
(* mergeBatchAnalyses: lines 390-418                                       *)

ListFields ==
    {"keyAchievements", "technicalSkills", "businessImpact",
     "problemSolving", "leadership"}

Min(a, b) == IF a < b THEN a ELSE b

\* Array.prototype.slice(0, n)
slice0(xs, n) == SubSeq(xs, 1, Min(n, Len(xs)))

\* [...new Set(xs)]: a Set keeps insertion order and ignores a value it holds.
RECURSIVE setSpreadFrom(_, _)
setSpreadFrom(acc, xs) ==
    IF xs = <<>> THEN acc
    ELSE IF \E k \in 1..Len(acc) : acc[k] = Head(xs)
    THEN setSpreadFrom(acc, Tail(xs))
    ELSE setSpreadFrom(Append(acc, Head(xs)), Tail(xs))

setSpread(xs) == setSpreadFrom(<<>>, xs)

dedupeSliceSix(xs) == slice0(setSpread(xs), 6)

dedupeSliceFirst(xs) == setSpread(slice0(xs, 5))

\* [...new Set(merged.f)].slice(0, 5), lines 411-415
dedupeSlice(xs) == slice0(setSpread(xs), 5)

\* analyses.forEach(analysis => merged.f.push(...analysis.f)), lines 402-408
RECURSIVE pushAll(_, _)
pushAll(as, f) ==
    IF as = <<>> THEN <<>> ELSE Head(as)[f] \o pushAll(Tail(as), f)

\* analyses.map(a => a.summary)
summaries(as) == [k \in 1..Len(as) |-> as[k].summary]

joinSummariesNoSpace(as) == pushAll(as, "summary")

\* analyses.map(a => a.summary).join(' '), line 393
joinSummaries(as) == join(summaries(as), " ")

mergeBatchAnalyses(as) ==
    [summary         |-> joinSummaries(as),
     keyAchievements |-> dedupeSlice(pushAll(as, "keyAchievements")),
     technicalSkills |-> dedupeSlice(pushAll(as, "technicalSkills")),
     businessImpact  |-> dedupeSlice(pushAll(as, "businessImpact")),
     problemSolving  |-> dedupeSlice(pushAll(as, "problemSolving")),
     leadership      |-> dedupeSlice(pushAll(as, "leadership"))]

\* interface ResumeAnalysis with every field empty; also stands for "no report"
EmptyReport ==
    [summary         |-> <<>>,
     keyAchievements |-> <<>>,
     technicalSkills |-> <<>>,
     businessImpact  |-> <<>>,
     problemSolving  |-> <<>>,
     leadership      |-> <<>>]

---------------------------------------------------------------------------
(* Inputs of the merge specification                                       *)

MaxPartials == 2

Lists ==
    { <<>>,
      <<"a", "b", "c">>,
      <<"d", "e", "f">>,
      <<"a", "a", "b">>,
      <<"c", "g">> }

Summaries == { <<>>, <<"s", "t">> }

Reverse(xs) == [k \in 1..Len(xs) |-> xs[Len(xs) + 1 - k]]

\* The partial reports handed to the merge: two lists chosen freely, the five
\* fields built from them so that no two fields of a report need agree.
PartialReports ==
    { [summary         |-> s,
       keyAchievements |-> l1,
       technicalSkills |-> l2,
       businessImpact  |-> Reverse(l1) \o l2,
       problemSolving  |-> Reverse(l2),
       leadership      |-> l2 \o l1] :
        s \in Summaries, l1 \in Lists, l2 \in Lists }

IdleMerge ==
    /\ mstage = "idle"
    /\ analyses = <<>>
    /\ merged = EmptyReport
    /\ swapped = EmptyReport

InitMergeInput ==
    /\ mstage = "input"
    /\ analyses \in SeqsUpTo(PartialReports, MaxPartials)
    /\ merged = EmptyReport
    /\ swapped = EmptyReport

Merge ==
    /\ mstage = "input"
    /\ merged' = mergeBatchAnalyses(analyses)
    /\ mstage' = "merged"
    /\ UNCHANGED <<analyses, swapped>>
    /\ UNCHANGED <<filterVars, mainVars, webVars>>

\* The same two partial reports merged in the other order
MergeSwapped ==
    /\ mstage = "merged"
    /\ Len(analyses) = 2
    /\ swapped' = mergeBatchAnalyses(<<analyses[2], analyses[1]>>)
    /\ mstage' = "swapped"
    /\ UNCHANGED <<analyses, merged>>
    /\ UNCHANGED <<filterVars, mainVars, webVars>>

---------------------------------------------------------------------------
(* analyzeBatch: what the service may answer, lines 363-387                *)

\* The texts the service may return as completion.choices[0].message.content.
ResponseTexts ==
    {"I cannot help with that", "null", "{\"summary\":\"st\"}",
     "json of Report1", "json of Report2"}

Report1 ==
    [summary         |-> <<"s", "t">>,
     keyAchievements |-> <<"a", "b">>,
     technicalSkills |-> <<"t">>,
     businessImpact  |-> <<>>,
     problemSolving  |-> <<"p", "p">>,
     leadership      |-> <<"l">>]

Report2 ==
    [summary         |-> <<"u">>,
     keyAchievements |-> <<"b", "c">>,
     technicalSkills |-> <<"t">>,
     businessImpact  |-> <<"i">>,
     problemSolving  |-> <<>>,
     leadership      |-> <<"m">>]

\* A value JSON.parse may return: null, or an object; `undefinedFields` are the
\* fields of ResumeAnalysis the object lacks, `fields` holds the others.
JsObject(undef, fields) == [isNull |-> FALSE, undefinedFields |-> undef, fields |-> fields]

JsNull == [isNull |-> TRUE, undefinedFields |-> {}, fields |-> EmptyReport]

\* JSON.parse(response), line 384: a SyntaxError or the parsed value
JSONparse(text) ==
    CASE text = "null" ->
            [ok |-> TRUE, value |-> JsNull]
      [] text = "{\"summary\":\"st\"}" ->
            [ok |-> TRUE,
             value |-> JsObject(ListFields, [EmptyReport EXCEPT !.summary = <<"s", "t">>])]
      [] text = "json of Report1" ->
            [ok |-> TRUE, value |-> JsObject({}, Report1)]
      [] text = "json of Report2" ->
            [ok |-> TRUE, value |-> JsObject({}, Report2)]
      [] OTHER ->
            [ok |-> FALSE, value |-> JsNull]

\* What awaiting openai.chat.completions.create can give: a rejection, a
\* completion without content, or a completion with a text.
Responses ==
    {[kind |-> "rejected", text |-> ""], [kind |-> "nocontent", text |-> ""]}
        \cup {[kind |-> "text", text |-> t] : t \in ResponseTexts}

NoResponse == [kind |-> "none", text |-> ""]

\* The body of analyzeBatch's try block after the await, lines 379-387:
\* the error thrown (wrapped with the batch number) or the value returned.
analyzeBatchResult(resp, batchNum) ==
    IF resp.kind = "rejected" \/ resp.kind = "nocontent"
    THEN [threw |-> TRUE, error |-> [type |-> "BatchFailure", batch |-> batchNum],
          value |-> JsNull]
    ELSE IF ~ JSONparse(resp.text).ok
    THEN [threw |-> TRUE, error |-> [type |-> "BatchFailure", batch |-> batchNum],
          value |-> JsNull]
    ELSE [threw |-> FALSE, error |-> [type |-> "none", batch |-> 0],
          value |-> JSONparse(resp.text).value]

---------------------------------------------------------------------------
(* analyzeCommitsWithGPT: lines 259-300                                    *)

batchSize == 20

\* Array.prototype.slice(from, to) with 0-based from and to
slice(xs, from, to) == SubSeq(xs, from + 1, Min(to, Len(xs)))

RECURSIVE batchLoopWrongEnd(_, _, _)
batchLoopWrongEnd(cs, i, batches) ==
    IF i < Len(cs)
    THEN batchLoopWrongEnd(cs, i + batchSize, Append(batches, slice(cs, i, batchSize)))
    ELSE batches

buildBatchesWrongEnd(cs) == batchLoopWrongEnd(cs, 0, <<>>)

\* for (let i = 0; i < commits.length; i += batchSize)
\*   batches.push(commits.slice(i, i + batchSize));
RECURSIVE batchLoop(_, _, _)
batchLoop(cs, i, batches) ==
    IF i < Len(cs)
    THEN batchLoop(cs, i + batchSize, Append(batches, slice(cs, i, i + batchSize)))
    ELSE batches

buildBatches(cs) == batchLoop(cs, 0, <<>>)

NoError == [type |-> "none", batch |-> 0]

Event(ev, batch, resp) == [ev |-> ev, batch |-> batch, resp |-> resp]

\* One call of analyzeCommitsWithGPT. `events` is the history of what the call
\* has done: service calls issued, responses received, pauses elapsed, the merge.
IdleRun ==
    [pc            |-> "idle",
     commits       |-> <<>>,
     batches       |-> <<>>,
     i             |-> 0,
     batchAnalyses |-> <<>>,
     events        |-> <<>>,
     error         |-> NoError,
     result        |-> EmptyReport]

\* Lines 259-284: the key check, then the batches; the loop starts at i = 0.
startRun(cs, hasKey) ==
    IF ~ hasKey
    THEN [IdleRun EXCEPT !.pc = "failed", !.commits = cs,
                         !.error = [type |-> "NoApiKey", batch |-> 0]]
    ELSE [IdleRun EXCEPT !.pc = "loop", !.commits = cs, !.batches = buildBatches(cs)]

\* merged.f.push(...analysis.f) throws a TypeError when analysis is null or
\* analysis.f is undefined; so does a.summary when a is null.
mergeThrows(as) ==
    \E k \in 1..Len(as) :
        as[k].isNull \/ as[k].undefinedFields \cap ListFields # {}

\* The parsed values as the ResumeAnalysis objects the merge reads.
reportsOf(vs) == [k \in 1..Len(vs) |-> vs[k].fields]

\* Lines 285-289 and 298-299: the loop test; the next call, or the merge.
loopStep(r) ==
    IF r.i < Len(r.batches)
    THEN [r EXCEPT !.pc = "awaitCall",
                   !.events = Append(@, Event("call", r.i + 1, NoResponse))]
    ELSE IF mergeThrows(r.batchAnalyses)
    THEN [r EXCEPT !.pc = "failed",
                   !.events = Append(@, Event("merge", 0, NoResponse)),
                   !.error = [type |-> "TypeError", batch |-> 0]]
    ELSE [r EXCEPT !.pc = "returned",
                   !.events = Append(@, Event("merge", 0, NoResponse)),
                   !.result = mergeBatchAnalyses(reportsOf(r.batchAnalyses))]

pauseFollowsAlways(r) == TRUE

\* if (i < batches.length - 1), line 293
pauseFollows(r) == r.i < Len(r.batches) - 1

callReturnsSwallow(r, resp) ==
    LET res == analyzeBatchResult(resp, r.i + 1)
        got == [r EXCEPT !.events = Append(@, Event("response", r.i + 1, resp))]
        val == IF res.threw THEN JsObject({}, EmptyReport) ELSE res.value
    IN  IF pauseFollows(r)
        THEN [got EXCEPT !.pc = "pausing", !.batchAnalyses = Append(@, val)]
        ELSE [got EXCEPT !.pc = "loop", !.i = @ + 1,
                         !.batchAnalyses = Append(@, val)]

\* Lines 289-295: the awaited analyzeBatch settles; a throw leaves the function.
callReturns(r, resp) ==
    LET res == analyzeBatchResult(resp, r.i + 1)
        got == [r EXCEPT !.events = Append(@, Event("response", r.i + 1, resp))]
    IN  IF res.threw
        THEN [got EXCEPT !.pc = "failed", !.error = res.error]
        ELSE IF pauseFollows(r)
        THEN [got EXCEPT !.pc = "pausing", !.batchAnalyses = Append(@, res.value)]
        ELSE [got EXCEPT !.pc = "loop", !.i = @ + 1,
                         !.batchAnalyses = Append(@, res.value)]

\* Line 294: the one-second timer fires; the loop goes on with i + 1.
pauseElapsed(r) ==
    [r EXCEPT !.pc = "loop", !.i = @ + 1,
              !.events = Append(@, Event("pause", r.i + 1, NoResponse))]

---------------------------------------------------------------------------
(* main: lines 522-565                                                     *)

MaxCommits == 45

Digits == <<"0", "1", "2", "3", "4", "5", "6", "7", "8", "9">>

hashOf(k) == <<"c", Digits[((k \div 10) % 10) + 1], Digits[(k % 10) + 1]>>

\* What git prints for n commits, one line each, most recent first. With
\* `wrapped` the first commit's body (%b) runs on to a second line.
GitLogText(n, wrapped) ==
    join([k \in 1..n |->
            Line5(hashOf(k), <<"d">>, <<"n">>, <<"e">>, <<"a", "b", "c">>)
                \o (IF k = 1 /\ wrapped
                    THEN <<Tab, "b", NL, "m", "o", "r", "e">>
                    ELSE <<>>)], NL)

IdleMain ==
    /\ pc = "idle"
    /\ args = [help |-> FALSE, web |-> FALSE, analyze |-> FALSE]
    /\ repoCheck = "none"
    /\ fetchStatus = "none"
    /\ commits = <<>>
    /\ run = IdleRun
    /\ effects = <<>>
    /\ exitCode = -1

\* parseArgs has run: the flags main reads (interface CliArgs).
InitMain ==
    /\ pc = "start"
    /\ args \in [help : BOOLEAN, web : BOOLEAN, analyze : BOOLEAN]
    /\ repoCheck = "none"
    /\ fetchStatus = "none"
    /\ commits = <<>>
    /\ run = IdleRun
    /\ effects = <<>>
    /\ exitCode = -1

\* if (args.help) { printHelp(); return; }
Help ==
    /\ pc = "start"
    /\ args.help
    /\ effects' = Append(effects, "printHelp")
    /\ pc' = "exited"
    /\ exitCode' = 0
    /\ UNCHANGED <<args, repoCheck, fetchStatus, commits, run>>
    /\ UNCHANGED <<filterVars, mergeVars, webVars>>

\* if (args.web) { await startWebServer(args.port); return; }
StartWebServer ==
    /\ pc = "start"
    /\ ~ args.help
    /\ args.web
    /\ effects' = Append(effects, "startWebServer")
    /\ pc' = "serving"
    /\ UNCHANGED <<args, repoCheck, fetchStatus, commits, run, exitCode>>
    /\ UNCHANGED <<filterVars, mergeVars, webVars>>

\* if (!validateRepo(repoPath)) process.exit(1);  with validateRepo, lines 116-129
ValidateRepo ==
    /\ pc = "start"
    /\ ~ args.help
    /\ ~ args.web
    /\ \E found \in {"absent", "notgit", "ok"} :
        /\ repoCheck' = found
        /\ IF found = "ok"
           THEN pc' = "fetch" /\ exitCode' = exitCode
           ELSE pc' = "exited" /\ exitCode' = 1
    /\ effects' = Append(effects, "validateRepo")
    /\ UNCHANGED <<args, fetchStatus, commits, run>>
    /\ UNCHANGED <<filterVars, mergeVars, webVars>>

\* fetchGitLog throws (runGitCommand failed); main's catch exits with 1.
FetchFails ==
    /\ pc = "fetch"
    /\ fetchStatus' = "failed"
    /\ effects' = effects \o <<"fetchGitLog", "printError">>
    /\ pc' = "exited"
    /\ exitCode' = 1
    /\ UNCHANGED <<args, repoCheck, commits, run>>
    /\ UNCHANGED <<filterVars, mergeVars, webVars>>

\* fetchGitLog returns; without --analyze the commits are printed and main
\* ends, with --analyze analyzeCommitsWithGPT(commits) is called.
FetchCommits ==
    /\ pc = "fetch"
    /\ fetchStatus' = "ok"
    /\ \E n \in 0..MaxCommits, wrapped \in BOOLEAN :
          commits' = filterLog(GitLogText(n, wrapped))
    /\ IF args.analyze
       THEN /\ \E hasKey \in BOOLEAN : run' = startRun(commits', hasKey)
            /\ effects' = effects \o <<"fetchGitLog", "analyzeCommitsWithGPT">>
            /\ pc' = "analyzing"
            /\ exitCode' = exitCode
       ELSE /\ run' = run
            /\ effects' = effects \o <<"fetchGitLog", "printCommits">>
            /\ pc' = "exited"
            /\ exitCode' = 0
    /\ UNCHANGED <<args, repoCheck>>
    /\ UNCHANGED <<filterVars, mergeVars, webVars>>

RunLoop ==
    /\ pc = "analyzing"
    /\ run.pc = "loop"
    /\ run' = loopStep(run)
    /\ UNCHANGED <<pc, args, repoCheck, fetchStatus, commits, effects, exitCode>>
    /\ UNCHANGED <<filterVars, mergeVars, webVars>>

CallReturns ==
    /\ pc = "analyzing"
    /\ run.pc = "awaitCall"
    /\ \E resp \in Responses : run' = callReturns(run, resp)
    /\ UNCHANGED <<pc, args, repoCheck, fetchStatus, commits, effects, exitCode>>
    /\ UNCHANGED <<filterVars, mergeVars, webVars>>

PauseElapsed ==
    /\ pc = "analyzing"
    /\ run.pc = "pausing"
    /\ run' = pauseElapsed(run)
    /\ UNCHANGED <<pc, args, repoCheck, fetchStatus, commits, effects, exitCode>>
    /\ UNCHANGED <<filterVars, mergeVars, webVars>>

\* The awaited analysis returned: the report is printed and main ends.
AnalysisReturned ==
    /\ pc = "analyzing"
    /\ run.pc = "returned"
    /\ effects' = Append(effects, "printReport")
    /\ pc' = "exited"
    /\ exitCode' = 0
    /\ UNCHANGED <<args, repoCheck, fetchStatus, commits, run>>
    /\ UNCHANGED <<filterVars, mergeVars, webVars>>

AnalysisThrewExitZero ==
    /\ pc = "analyzing"
    /\ run.pc = "failed"
    /\ effects' = Append(effects, "printError")
    /\ pc' = "exited"
    /\ exitCode' = 0
    /\ UNCHANGED <<args, repoCheck, fetchStatus, commits, run>>
    /\ UNCHANGED <<filterVars, mergeVars, webVars>>

\* The awaited analysis threw: main's catch prints the error and exits with 1.
AnalysisThrew ==
    /\ pc = "analyzing"
    /\ run.pc = "failed"
    /\ effects' = Append(effects, "printError")
    /\ pc' = "exited"
    /\ exitCode' = 1
    /\ UNCHANGED <<args, repoCheck, fetchStatus, commits, run>>
    /\ UNCHANGED <<filterVars, mergeVars, webVars>>

---------------------------------------------------------------------------
(* startWebServer: the handler of POST /api/analyze-resume, lines 488-508  *)

MaxRuns == 2

RunIds == 1..MaxRuns

\* The lengths of the commit arrays clients post: none, one batch, two batches.
WebBodySizes == {0, 1, batchSize + 1}

\* req.body.commits: n commit records
WebBody(n) ==
    [k \in 1..n |->
        parseLine(Line5(hashOf(k), <<"d">>, <<"n">>, <<"e">>, <<"a", "b", "c">>))]

NoReply == [analysis |-> EmptyReport, error |-> NoError]

\* No request with this number has arrived.
NoRequest ==
    [state   |-> "none",
     body    |-> <<>>,
     hasKey  |-> FALSE,
     served  |-> <<>>,
     status  |-> 0,
     reply   |-> NoReply]

InFlight(q) == requests[q].state = "inflight"

\* Lines 496-507: the awaited analysis settles and the handler answers:
\* 200 with the analysis, or 500 with the error's message.
respond(req, r) ==
    IF r.pc = "returned"
    THEN [req EXCEPT !.state = "responded", !.status = 200,
                     !.reply = [analysis |-> r.result, error |-> NoError]]
    ELSE IF r.pc = "failed"
    THEN [req EXCEPT !.state = "responded", !.status = 500,
                     !.reply = [analysis |-> EmptyReport, error |-> r.error]]
    ELSE req

\* const analysis = await analyzeCommitsWithGPT(commits), line 496: the call
\* has its own batches, i and batchAnalyses.
webStartRun(rs, r, cs, hasKey) == [rs EXCEPT ![r] = startRun(cs, hasKey)]

webLoopStep(rs, r) == [rs EXCEPT ![r] = loopStep(rs[r])]

webCallReturnsSharedAccumulator(rs, r, resp) ==
    LET res == analyzeBatchResult(resp, rs[r].i + 1)
    IN  [q \in RunIds |->
            IF q = r THEN callReturns(rs[r], resp)
            ELSE IF ~ res.threw /\ rs[q].pc \in {"loop", "awaitCall", "pausing"}
            THEN [rs[q] EXCEPT !.batchAnalyses = Append(@, res.value)]
            ELSE rs[q]]

\* batchAnalyses.push(batchAnalysis), line 290: batchAnalyses is a local of
\* the call the response belongs to.
webCallReturns(rs, r, resp) == [rs EXCEPT ![r] = callReturns(rs[r], resp)]

webPauseElapsed(rs, r) == [rs EXCEPT ![r] = pauseElapsed(rs[r])]

\* The service's answers to the runs of the server: a rejection, a text that
\* parses to null, and two complete reports.
WebResponses ==
    {[kind |-> "rejected", text |-> ""]}
        \cup {[kind |-> "text", text |-> t] :
                 t \in {"null", "json of Report1", "json of Report2"}}

IdleWeb ==
    /\ requests = [r \in RunIds |-> NoRequest]
    /\ webRuns = [r \in RunIds |-> IdleRun]

\* main has started the server (args.web) and returned.
InitServing ==
    /\ pc = "serving"
    /\ args = [help |-> FALSE, web |-> TRUE, analyze |-> FALSE]
    /\ repoCheck = "none"
    /\ fetchStatus = "none"
    /\ commits = <<>>
    /\ run = IdleRun
    /\ effects = <<"startWebServer">>
    /\ exitCode = -1

\* A request arrives (requests are numbered in the order they arrive): 400 for
\* a missing or empty commit array, else analyzeCommitsWithGPT is called.
WebRequest ==
    /\ pc = "serving"
    /\ \E r \in RunIds, n \in WebBodySizes, hasKey \in BOOLEAN :
        /\ requests[r].state = "none"
        /\ \A q \in 1..(r - 1) : requests[q].state # "none"
        /\ IF n = 0
           THEN /\ requests' = [requests EXCEPT
                                  ![r] = [NoRequest EXCEPT !.state = "responded",
                                                           !.status = 400]]
                /\ webRuns' = webRuns
           ELSE /\ webRuns' = webStartRun(webRuns, r, WebBody(n), hasKey)
                /\ requests' = [requests EXCEPT
                                  ![r] = respond(
                                      [NoRequest EXCEPT
                                          !.state = "inflight",
                                          !.body = WebBody(n),
                                          !.hasKey = hasKey],
                                      webRuns'[r])]
    /\ UNCHANGED <<filterVars, mergeVars, mainVars>>

WebRunLoop ==
    /\ pc = "serving"
    /\ \E r \in RunIds :
        /\ InFlight(r)
        /\ webRuns[r].pc = "loop"
        /\ webRuns' = webLoopStep(webRuns, r)
        /\ requests' = [requests EXCEPT ![r] = respond(@, webRuns'[r])]
    /\ UNCHANGED <<filterVars, mergeVars, mainVars>>

WebCallReturns ==
    /\ pc = "serving"
    /\ \E r \in RunIds, resp \in WebResponses :
        /\ InFlight(r)
        /\ webRuns[r].pc = "awaitCall"
        /\ webRuns' = webCallReturns(webRuns, r, resp)
        /\ requests' = [requests EXCEPT
                          ![r] = respond([@ EXCEPT !.served = Append(@, resp)],
                                         webRuns'[r])]
    /\ UNCHANGED <<filterVars, mergeVars, mainVars>>

WebPauseElapsed ==
    /\ pc = "serving"
    /\ \E r \in RunIds :
        /\ InFlight(r)
        /\ webRuns[r].pc = "pausing"
        /\ webRuns' = webPauseElapsed(webRuns, r)
        /\ UNCHANGED requests
    /\ UNCHANGED <<filterVars, mergeVars, mainVars>>

---------------------------------------------------------------------------
(* Specifications                                                          *)

Init == IdleFilter /\ IdleMerge /\ InitMain /\ IdleWeb

Next ==
    \/ Help
    \/ StartWebServer
    \/ ValidateRepo
    \/ FetchFails
    \/ FetchCommits
    \/ RunLoop
    \/ CallReturns
    \/ PauseElapsed
    \/ AnalysisReturned
    \/ AnalysisThrew

Spec == Init /\ [][Next]_vars

InitFilter == InitFilterInput /\ IdleMerge /\ IdleMain /\ IdleWeb

NextFilter == FetchGitLog \/ Refilter

SpecFilter == InitFilter /\ [][NextFilter]_vars

InitMerge == IdleFilter /\ InitMergeInput /\ IdleMain /\ IdleWeb

NextMerge == Merge \/ MergeSwapped

SpecMerge == InitMerge /\ [][NextMerge]_vars

InitWeb == IdleFilter /\ IdleMerge /\ InitServing /\ IdleWeb

NextWeb == WebRequest \/ WebRunLoop \/ WebCallReturns \/ WebPauseElapsed

SpecWeb == InitWeb /\ [][NextWeb]_vars

---------------------------------------------------------------------------
(* Properties                                                              *)

Range(xs) == { xs[k] : k \in 1..Len(xs) }

RECURSIVE Flatten(_)
Flatten(xss) ==
    IF xss = <<>> THEN <<>>
    ELSE Flatten(SubSeq(xss, 1, Len(xss) - 1)) \o xss[Len(xss)]

BatchSizes == [k \in 1..Len(run.batches) |-> Len(run.batches[k])]

BatchesBuilt == run.pc # "idle" /\ run.error.type # "NoApiKey"

\* C1: the batches analyzeCommitsWithGPT builds are a lossless, order-preserving
\* cover of its input: concatenated in order they give the input back, every
\* batch holds 1 to 20 commits, only the last may hold fewer than 20, and n
\* commits give ceil(n/20) batches.
C1_BatchesCoverInput ==
    BatchesBuilt =>
        /\ Flatten(run.batches) = run.commits
        /\ \A k \in 1..Len(run.batches) :
              /\ Len(run.batches[k]) \in 1..20
              /\ k < Len(run.batches) => Len(run.batches[k]) = 20
        /\ Len(run.batches) = (Len(run.commits) + 19) \div 20

\* 45 commits have been split into batches of 20, 20 and 5.
C1_Witness ==
    /\ BatchesBuilt
    /\ Len(run.commits) = 45
    /\ BatchSizes = <<20, 20, 5>>

InvalidTexts == {"I cannot help with that"}

\* A response without text, or with text that is not valid structured data.
Unusable(resp) ==
    \/ resp.kind = "nocontent"
    \/ resp.kind = "text" /\ resp.text \in InvalidTexts

\* C2: once the service answers a batch with no text or with text that is not
\* valid structured data, the run has failed with an error naming that batch;
\* that response is the last thing the run did (no later call, no merge), and
\* no report is returned or printed.
C2_UnusableResponseFailsRun ==
    \A k \in 1..Len(run.events) :
        (run.events[k].ev = "response" /\ Unusable(run.events[k].resp)) =>
            /\ k = Len(run.events)
            /\ run.pc = "failed"
            /\ run.error = [type |-> "BatchFailure", batch |-> run.events[k].batch]
            /\ run.result = EmptyReport
            /\ \A e \in 1..Len(effects) : effects[e] # "printReport"

\* The first batch was analysed, the second got an unusable response, and main
\* has ended.
C2_Witness ==
    /\ pc = "exited"
    /\ Len(run.batchAnalyses) = 1
    /\ \E k \in 1..Len(run.events) :
          /\ run.events[k].ev = "response"
          /\ run.events[k].batch = 2
          /\ Unusable(run.events[k].resp)

\* Texts that are valid JSON but not a report: null, and an object without lists.
MisshapenTexts == {"null", "{\"summary\":\"st\"}"}

\* C3: once the service answers a batch with text that does not parse into the
\* report shape, the run has failed with an error naming that batch, and that
\* response is the last thing the run did (no later batch is sent).
C3_MisshapenResponseFailsAtBatch ==
    \A k \in 1..Len(run.events) :
        (/\ run.events[k].ev = "response"
         /\ run.events[k].resp.kind = "text"
         /\ run.events[k].resp.text \in MisshapenTexts) =>
            /\ k = Len(run.events)
            /\ run.pc = "failed"
            /\ run.error = [type |-> "BatchFailure", batch |-> run.events[k].batch]

NoDuplicates(xs) == \A i, j \in 1..Len(xs) : i # j => xs[i] # xs[j]

\* The partials' lists for field f, one after the other in batch order.
RECURSIVE Pool(_, _)
Pool(as, f) ==
    IF as = <<>> THEN <<>>
    ELSE Pool(SubSeq(as, 1, Len(as) - 1), f) \o as[Len(as)][f]

\* xs without every entry that equals an earlier one.
RECURSIVE KeepFirst(_)
KeepFirst(xs) ==
    IF xs = <<>> THEN <<>>
    ELSE LET front == SubSeq(xs, 1, Len(xs) - 1)
             last  == xs[Len(xs)]
         IN  IF last \in Range(front) THEN KeepFirst(front)
             ELSE Append(KeepFirst(front), last)

FirstN(xs, n) == [k \in 1..(IF Len(xs) < n THEN Len(xs) ELSE n) |-> xs[k]]

\* The summaries with one space between each two neighbours.
RECURSIVE SpaceJoined(_)
SpaceJoined(as) ==
    IF as = <<>> THEN <<>>
    ELSE IF Len(as) = 1 THEN as[1].summary
    ELSE SpaceJoined(SubSeq(as, 1, Len(as) - 1)) \o <<" ">> \o as[Len(as)].summary

\* C4: each of the five list fields of the report mergeBatchAnalyses returns
\* has at most 5 entries and no two equal entries.
C4_MergedListsBounded ==
    mstage # "input" =>
        \A f \in ListFields : Len(merged[f]) <= 5 /\ NoDuplicates(merged[f])

\* A merge of two partials whose pooled lists for some field held more than 5
\* distinct strings, and a repeated one, gave a list of 5 for that field.
C4_Witness ==
    /\ mstage = "merged"
    /\ Len(analyses) = 2
    /\ \E f \in ListFields :
          /\ Cardinality(Range(Pool(analyses, f))) > 5
          /\ ~ NoDuplicates(Pool(analyses, f))
          /\ Len(merged[f]) = 5

\* C5: mergeBatchAnalyses returns the summaries joined with one space in batch
\* order and, in each list field, the partials' lists concatenated in batch
\* order, every repeated string dropped after its first occurrence, cut to the
\* first 5; an empty sequence gives the report with every field empty.
C5_MergeResult ==
    mstage # "input" =>
        /\ merged.summary = SpaceJoined(analyses)
        /\ \A f \in ListFields :
              merged[f] = FirstN(KeepFirst(Pool(analyses, f)), 5)
        /\ analyses = <<>> => merged = EmptyReport

\* Two partials were merged: one field lost a repeated string, another was cut
\* to 5, and both summaries are in the merged summary.
C5_Witness ==
    /\ mstage = "merged"
    /\ Len(analyses) = 2
    /\ analyses[1].summary # <<>> /\ analyses[2].summary # <<>>
    /\ \E f \in ListFields :
          /\ Len(KeepFirst(Pool(analyses, f))) < Len(Pool(analyses, f))
          /\ Len(KeepFirst(Pool(analyses, f))) <= 5
    /\ \E f \in ListFields : Len(KeepFirst(Pool(analyses, f))) > 5

\* C8 as stated: for two partials, the two orders of merging give, in each list
\* field, the same set of strings (and so lists that differ only in order).
C8_SwappedSameSet ==
    mstage = "swapped" =>
        \A f \in ListFields :
            /\ Range(merged[f]) = Range(swapped[f])
            /\ Len(merged[f]) = Len(swapped[f])

\* C8 amended: for two partials and each list field whose two lists hold at
\* most 5 distinct strings between them, the two orders of merging give the
\* same set of strings, in lists of the same length.
C8_SwappedSameSetUpToFive ==
    mstage = "swapped" =>
        \A f \in ListFields :
            Cardinality(Range(Pool(analyses, f))) <= 5 =>
                /\ Range(merged[f]) = Range(swapped[f])
                /\ Len(merged[f]) = Len(swapped[f])

\* Both orders were merged, the field holds at most 5 distinct strings, and the
\* two merged lists differ, in order only.
C8_Witness ==
    /\ mstage = "swapped"
    /\ Cardinality(Range(Pool(analyses, "keyAchievements"))) <= 5
    /\ merged.keyAchievements # swapped.keyAchievements
    /\ Range(merged.keyAchievements) = Range(swapped.keyAchievements)

\* The lines of the log text that hold a character that is not white space.
NonBlankLines ==
    SelectSeq(split(output, NL),
              LAMBDA line : \E k \in 1..Len(line) : line[k] \notin WhiteSpace)

\* The lower-cased trimmed subjects that say nothing: a bare asterisk or a bare
\* conventional-commit prefix.
BareSubjects ==
    { <<"*">>,
      <<"f", "e", "a", "t", ":">>,
      <<"f", "i", "x", ":">>,
      <<"c", "h", "o", "r", "e", ":">>,
      <<"d", "o", "c", "s", ":">>,
      <<"s", "t", "y", "l", "e", ":">>,
      <<"r", "e", "f", "a", "c", "t", "o", "r", ":">>,
      <<"t", "e", "s", "t", ":">> }

SubjectRules(c) ==
    /\ Len(trim(c.subject)) >= 3
    /\ trim(toLowerCase(c.subject)) \notin BareSubjects

\* The rules as the claim states them: the four header fields non-empty.
RulesAsStated(c) ==
    /\ c.hash # <<>> /\ c.date # <<>> /\ c.author # <<>> /\ c.email # <<>>
    /\ SubjectRules(c)

\* The rules with author name and email non-empty after trimming.
RulesTrimmed(c) ==
    /\ c.hash # <<>> /\ c.date # <<>>
    /\ trim(c.author) # <<>> /\ trim(c.email) # <<>>
    /\ SubjectRules(c)

\* C6 as stated: fetchGitLog returns, in input order, exactly the records of
\* the non-blank lines whose hash, date, author name and email are non-empty,
\* whose trimmed subject has at least 3 characters and whose lower-cased
\* trimmed subject is not a bare asterisk or a bare prefix.
C6_KeptIffRulesAsStated ==
    fstage # "input" =>
        /\ logCommits = SelectSeq(parseLines(NonBlankLines), RulesAsStated)
        /\ Len(logCommits) <= Len(NonBlankLines)

\* C6 amended: the same, with author name and email required to be non-empty
\* after trimming white space (hash and date only non-empty).
C6_KeptIffRulesTrimmed ==
    fstage # "input" =>
        /\ logCommits = SelectSeq(parseLines(NonBlankLines), RulesTrimmed)
        /\ Len(logCommits) <= Len(NonBlankLines)
        /\ \A k \in 1..Len(logCommits) : RulesTrimmed(logCommits[k])

\* Of two non-blank lines the filter kept one and dropped the other, whose
\* subject is a bare prefix.
C6_Witness ==
    /\ fstage = "filtered"
    /\ Len(NonBlankLines) = 2
    /\ Len(logCommits) = 1
    /\ \E k \in 1..2 :
          /\ trim(toLowerCase(parseLine(NonBlankLines[k]).subject)) \in BareSubjects
          /\ Len(trim(parseLine(NonBlankLines[k]).subject)) >= 3

\* C7: the surviving records written back as tab-delimited lines and filtered
\* again are the same records, fields and order.
C7_FilterIdempotent ==
    fstage = "refiltered" => refiltered = logCommits

\* Two records survived, one with a body that holds a tab, and were filtered
\* again.
C7_Witness ==
    /\ fstage = "refiltered"
    /\ Len(logCommits) = 2
    /\ logCommits[1] # logCommits[2]
    /\ \E k \in 1..2 : Tab \in Range(logCommits[k].body)

RepoInvalid == repoCheck \in {"absent", "notgit"}

\* With -h/--help main prints the usage and does nothing else.
HelpOnlyPrintsUsage ==
    (pc # "start" /\ args.help) => effects = <<"printHelp">> /\ run = IdleRun

\* C9 as stated: a CLI run (not --web) that has ended has a non-zero status
\* exactly when the repository path was absent or no repository, or the fetch
\* failed; with -h/--help only the usage is printed.
C9_ExitStatusAsStated ==
    /\ (pc = "exited" /\ ~ args.web) =>
          (exitCode # 0 <=> (RepoInvalid \/ fetchStatus = "failed"))
    /\ HelpOnlyPrintsUsage

\* C9 amended: the status is non-zero exactly when the repository path was
\* absent or no repository, the fetch failed, or the analysis asked for with
\* --analyze failed; it is 0 in every other case, and with -h/--help only the
\* usage is printed.
C9_ExitStatus ==
    /\ (pc = "exited" /\ ~ args.web) =>
          /\ exitCode # 0 <=>
                (RepoInvalid \/ fetchStatus = "failed" \/ run.pc = "failed")
          /\ exitCode \in {0, 1}
    /\ HelpOnlyPrintsUsage

\* A run with --analyze on a valid repository whose analysis failed has ended
\* with status 1.
C9_Witness ==
    /\ pc = "exited"
    /\ ~ args.web
    /\ args.analyze
    /\ repoCheck = "ok"
    /\ fetchStatus = "ok"
    /\ run.pc = "failed"
    /\ exitCode = 1

EventCount(kind) ==
    Cardinality({k \in 1..Len(run.events) : run.events[k].ev = kind})

\* The p-th thing a run of n batches does: call, response, pause for batch
\* 1, then for batch 2, ...; after the last response comes the merge.
ExpectedEvent(p, n) ==
    LET j == (p + 2) \div 3
    IN  IF p % 3 = 1 THEN [ev |-> "call", batch |-> j]
        ELSE IF p % 3 = 2 THEN [ev |-> "response", batch |-> j]
        ELSE IF j < n THEN [ev |-> "pause", batch |-> j]
        ELSE [ev |-> "merge", batch |-> 0]

\* C10: the service calls of a run are issued one at a time in batch order:
\* each call after the first follows the response to the previous batch and
\* the pause after it; a pause follows every response but the last (k-1 pauses
\* on a successful run of k batches), and none follows the last call.
C10_CallsSequentialWithPauses ==
    LET n == Len(run.batches)
    IN  /\ \A p \in 1..Len(run.events) :
              /\ (p + 2) \div 3 <= n \/ (n = 0 /\ p = 1)
              /\ IF n = 0
                 THEN run.events[p].ev = "merge"
                 ELSE /\ run.events[p].ev = ExpectedEvent(p, n).ev
                      /\ run.events[p].batch = ExpectedEvent(p, n).batch
        /\ run.pc = "awaitCall" =>
              /\ EventCount("call") = run.i + 1
              /\ EventCount("response") = run.i
              /\ EventCount("pause") = run.i
        /\ (run.pc = "returned" /\ n > 0) =>
              /\ EventCount("call") = n
              /\ EventCount("response") = n
              /\ EventCount("pause") = n - 1

\* A run of three batches returned its report after three calls and two pauses.
C10_Witness ==
    /\ run.pc = "returned"
    /\ Len(run.batches) = 3
    /\ EventCount("call") = 3
    /\ EventCount("pause") = 2

\* A run taken as far as it goes alone on the given responses, one per call
\* in order: it stops where it returned or failed, or waits for a response
\* that is not in the list.
RECURSIVE Alone(_, _)
Alone(r, resps) ==
    IF r.pc = "loop" THEN Alone(loopStep(r), resps)
    ELSE IF r.pc = "pausing" THEN Alone(pauseElapsed(r), resps)
    ELSE IF r.pc = "awaitCall" /\ resps # <<>>
    THEN Alone(callReturns(r, Head(resps)), Tail(resps))
    ELSE r

\* The run of request q alone on its own commits and its own responses.
AloneRun(q) ==
    Alone(startRun(requests[q].body, requests[q].hasKey), requests[q].served)

\* C11: under every interleaving of the requests in flight, each run is where
\* it would be alone on its own commits and the responses to its own calls
\* (same batches, same partial reports, same history), and the answer the
\* handler sends is that run's outcome: 200 with its merged report, or 500
\* with its failure.
C11_RunsIsolated ==
    \A q \in RunIds :
        (requests[q].state # "none" /\ requests[q].status # 400) =>
            /\ Alone(webRuns[q], <<>>) = AloneRun(q)
            /\ requests[q].state = "responded" <=>
                  webRuns[q].pc \in {"returned", "failed"}
            /\ requests[q].status = 200 =>
                  /\ AloneRun(q).pc = "returned"
                  /\ requests[q].reply.analysis = AloneRun(q).result
            /\ requests[q].status = 500 =>
                  /\ AloneRun(q).pc = "failed"
                  /\ requests[q].reply.error = AloneRun(q).error

\* A later request of two batches has been answered with its own report while
\* an earlier one of two batches, served a different first response, is still
\* pausing between its batches.
C11_Witness ==
    \E q1, q2 \in RunIds :
        /\ q1 < q2
        /\ InFlight(q1)
        /\ webRuns[q1].pc = "pausing"
        /\ Len(webRuns[q1].batches) = 2
        /\ Len(webRuns[q2].batches) = 2
        /\ requests[q2].status = 200
        /\ requests[q2].reply.analysis = webRuns[q2].result
        /\ requests[q1].served # <<>>
        /\ requests[q1].served[1] # requests[q2].served[1]

============================================================================
